---- MODULE Spec2Model ----
(***************************************************************************)
(* A model of src/gif.h (TurboStitchGIF, safe mode: GIF_MODE_TURBO is not  *)
(* defined, src/gif.h:44).  The decoder context, the scratch memory, the   *)
(* caller's canvas and the position of gif_next_frame inside its loops are *)
(* the state; the input is a byte sequence built by a small GIF writer     *)
(* (with a conforming LZW encoder) and fixed at the start of a behaviour.  *)
(***************************************************************************)
EXTENDS Integers, Sequences, FiniteSets, TLC

(***************************************************************************)
(* Bounds of the exploration.                                              *)
(***************************************************************************)
\* gif_next_frame calls with valid arguments per behaviour
MaxCalls == 5
\* gif_rewind calls by the caller per behaviour
MaxRewinds == 1
\* largest number of pixels of a frame in the round-trip family
MaxPixels == 4
\* every byte of the caller's canvas before the first frame
CanvasFill == 7
\* largest height of a frame in the interlace family
MaxHeight == 9
\* lines one gif_decode_lzw call is followed through: on some inputs its loop
\* flushes lines without end
MaxLines == 12
\* passes back to the start of the animation that the observer counts; the
\* passes beyond them are taken but not counted
MaxLoops == 16

(***************************************************************************)
(* Program constants.                                                      *)
(***************************************************************************)
GIF_MAX_WIDTH == 480
GIF_MAX_COLORS == 256
GIF_MAX_CODE_SIZE == 12
GIF_LZW_CHUNK_SIZE == 255
GIF_LZW_BASE_BUF_SIZE == 6 * GIF_LZW_CHUNK_SIZE
GIF_LZW_TABLE_ENTRIES == 2 ^ GIF_MAX_CODE_SIZE
GIF_SUCCESS == 0
GIF_ERROR_DECODE == 1
GIF_ERROR_INVALID_PARAM == 2
GIF_ERROR_BAD_FILE == 3
GIF_ERROR_EARLY_EOF == 4
GIF_ERROR_NO_FRAME == 5
GIF_ERROR_BUFFER_TOO_SMALL == 6
GIF_ERROR_INVALID_FRAME_DIMENSIONS == 7
GIF_ERROR_UNSUPPORTED_COLOR_DEPTH == 8
\* lzw_table[i] = 0xFFFF: end of chain, and also the value of an unused slot
LINK_END == 65535

(***************************************************************************)
(* Memory: an array is a function on the indices written so far; a read of *)
(* any other index gives the byte the memory held before (fill).           *)
(***************************************************************************)
EmptyMem == [i \in {} |-> 0]

Rd(mem, i, fill) == IF i \in DOMAIN mem THEN mem[i] ELSE fill

Wr(mem, i, v) == (i :> v) @@ mem

\* memcpy of the sequence s to mem[at .. at+Len(s)-1]
WrSeq(mem, at, s) ==
  [i \in (DOMAIN mem) \cup (at .. (at + Len(s) - 1)) |->
     IF i >= at /\ i < at + Len(s) THEN s[i - at + 1] ELSE mem[i]]

RECURSIVE SumSeq(_)
SumSeq(s) == IF s = <<>> THEN 0 ELSE Head(s) + SumSeq(Tail(s))

RECURSIVE Concat(_)
Concat(ss) == IF ss = <<>> THEN <<>> ELSE Head(ss) \o Concat(Tail(ss))

(***************************************************************************)
(* The GIF writer that produces the inputs: container pieces of spec       *)
(* section 6 and a conforming variable-width LZW encoder.                  *)
(***************************************************************************)
U16(n) == <<n % 256, n \div 256>>

\* "GIF89a"
HeaderBytes == <<71, 73, 70, 56, 57, 97>>

\* logical screen descriptor with a 2-entry global color table, then the table
ScreenBytes(w, h, bg) ==
  U16(w) \o U16(h) \o <<128, bg, 0>> \o <<0, 0, 0, 255, 255, 255>>

\* logical screen descriptor without a global color table
BareScreenBytes(w, h, bg) == U16(w) \o U16(h) \o <<0, bg, 0>>

NetscapeBytes(k) ==
  <<33, 255, 11, 78, 69, 84, 83, 67, 65, 80, 69, 50, 46, 48, 3, 1>>
    \o U16(k) \o <<0>>

CommentBytes == <<33, 254, 2, 104, 105, 0>>

\* gce = <<>> (no extension) or <<disposal, transparency, delay, index>>
GceBytes(gce) ==
  IF gce = <<>> THEN <<>>
  ELSE <<33, 249, 4, gce[1] * 4 + gce[2]>> \o U16(gce[3]) \o <<gce[4], 0>>

ClearCodeOf(mcs) == 2 ^ mcs
EndCodeOf(mcs) == 2 ^ mcs + 1

CodeOfString(s, dict) == IF Len(s) = 1 THEN s[1] ELSE dict[s]

RECURSIVE LZWEncodeFrom(_, _, _, _, _, _)
LZWEncodeFrom(px, i, cur, dict, next, out) ==
  IF i > Len(px) THEN Append(out, CodeOfString(cur, dict))
  ELSE LET s == Append(cur, px[i]) IN
       IF s \in DOMAIN dict
       THEN LZWEncodeFrom(px, i + 1, s, dict, next, out)
       ELSE LZWEncodeFrom(px, i + 1, <<px[i]>>,
                          IF next < 4096 THEN (s :> next) @@ dict ELSE dict,
                          next + 1, Append(out, CodeOfString(cur, dict)))

\* CLEAR, the codes of the pixel stream px, END
LZWEncode(px, mcs) ==
  <<ClearCodeOf(mcs)>>
    \o LZWEncodeFrom(px, 2, <<px[1]>>, EmptyMem, EndCodeOf(mcs) + 1, <<>>)
    \o <<EndCodeOf(mcs)>>

RECURSIVE ToBits(_, _)
ToBits(v, w) == IF w = 0 THEN <<>> ELSE <<v % 2>> \o ToBits(v \div 2, w - 1)

\* the codes as bits, LSB first, each at the width a GIF encoder uses there
RECURSIVE CodeBits(_, _, _, _, _)
CodeBits(codes, i, mcs, w, free) ==
  IF i > Len(codes) THEN <<>>
  ELSE LET cd == codes[i] IN
       ToBits(cd, w) \o
       ( IF cd = ClearCodeOf(mcs)
         THEN CodeBits(codes, i + 1, mcs, mcs + 1, EndCodeOf(mcs) + 1)
         ELSE IF cd = EndCodeOf(mcs)
         THEN CodeBits(codes, i + 1, mcs, w, free)
         ELSE CodeBits(codes, i + 1, mcs,
                       IF free + 1 > 2 ^ w /\ w < 12 THEN w + 1 ELSE w,
                       free + 1) )

RECURSIVE BitsToBytes(_)
BitsToBytes(bits) ==
  IF bits = <<>> THEN <<>>
  ELSE IF Len(bits) < 8 THEN BitsToBytes(bits \o <<0>>)
  ELSE <<SumSeq([j \in 1..8 |-> bits[j] * 2 ^ (j - 1)])>>
         \o BitsToBytes(SubSeq(bits, 9, Len(bits)))

PackCodes(codes, mcs) ==
  BitsToBytes(CodeBits(codes, 1, mcs, mcs + 1, EndCodeOf(mcs) + 1))

\* one data sub-block and the zero-length terminator
SubBlocks(data) == <<Len(data)>> \o data \o <<0>>

\* the size field of a color table of Len(lct) / 3 = 2^(n+1) entries
TableBits(lct) == CHOOSE n \in 0..7 : 3 * (2 ^ (n + 1)) = Len(lct)

\* the packed byte of an image descriptor: local table flag and size, interlace
PackedBits(f) ==
  f.il * 64 + (IF f.lct = <<>> THEN 0 ELSE 128 + TableBits(f.lct))

\* f = [gce, x, y, w, h, il, lct, mcs, codes]: optional graphic control, then
\* the image descriptor, the local color table lct (<<>>: none) and the data
ImageBytes(f) ==
  <<44>> \o U16(f.x) \o U16(f.y) \o U16(f.w) \o U16(f.h) \o <<PackedBits(f)>>
    \o f.lct \o <<f.mcs>> \o SubBlocks(PackCodes(f.codes, f.mcs))

FrameBytes(f) == GceBytes(f.gce) \o ImageBytes(f)

\* tail: "T" trailer, "CT" comment and trailer, "TI" trailer and a further
\* image behind it, "N" nothing (the input ends after the last frame)
TailBytes(in) ==
  CASE in.tail = "T" -> <<59>>
    [] in.tail = "CT" -> CommentBytes \o <<59>>
    [] in.tail = "TI" -> <<59>> \o ImageBytes(in.frames[1])
    [] OTHER -> <<>>

\* in.sig: the six signature bytes; in.gct: a global color table is written;
\* in.bg: the background index; in.ext: the bytes of further extensions
PreambleBytes(in) ==
  in.sig
    \o (IF in.gct THEN ScreenBytes(in.cw, in.ch, in.bg)
        ELSE BareScreenBytes(in.cw, in.ch, in.bg))
    \o (IF in.loop >= 0 THEN NetscapeBytes(in.loop) ELSE <<>>)
    \o in.ext

WholeGifBytes(in) ==
  PreambleBytes(in)
    \o Concat([j \in 1..Len(in.frames) |-> FrameBytes(in.frames[j])])
    \o TailBytes(in)

\* in.keep: the number of bytes of the file that reach the decoder, -1 for all
GifBytes(in) ==
  IF in.keep < 0 THEN WholeGifBytes(in)
  ELSE SubSeq(WholeGifBytes(in), 1, in.keep)

\* offset of the image separator (0x2C) of frame j of the input
FramePos(in, j) ==
  Len(PreambleBytes(in))
    + SumSeq([i \in 1..(j - 1) |-> Len(FrameBytes(in.frames[i]))])
    + Len(GceBytes(in.frames[j].gce))

(***************************************************************************)
(* State.                                                                  *)
(***************************************************************************)
VARIABLES
  input,        \* the description the input bytes were written from
  gif_data,     \* the input bytes (gif_data[0] is TLA+ index 1)
  scratch_fill, \* the byte every cell of the caller's scratch region held before gif_init
  pc,           \* "new", "idle", "failed", or the loop gif_next_frame is in: "sep", "lzw"
  ctx,          \* GIF_Context
  scratch,      \* the arrays in the scratch region
  lz,           \* the locals of gif_decode_lzw
  canvas,       \* the caller's frame buffer, canvas_width*canvas_height*3 bytes
  delay_out,    \* the caller's int behind delay_ms
  ret,          \* what the last API call returned
  obs,          \* what a test harness around the calls observes
  hist          \* the outcomes of the gif_next_frame calls so far

vars == <<input, gif_data, scratch_fill, pc, ctx, scratch, lz, canvas,
          delay_out, ret, obs, hist>>

\* values a read outside the input range, or of an unset local, may give
Garbage == {0, 201}

\* memset(ctx, 0, sizeof(GIF_Context)); errs and oob_in are what the error
\* callback and a memory checker see during the current API call
ZeroCtx ==
  [ gif_size |-> 0, current_pos |-> 0,
    canvas_width |-> 0, canvas_height |-> 0,
    frame_width |-> 0, frame_height |-> 0,
    frame_x_off |-> 0, frame_y_off |-> 0,
    frame_delay_ms |-> 0, loop_count |-> 0,
    background_index |-> 0, transparent_index |-> 0,
    has_transparency |-> 0, disposal_method |-> 0, ucGIFBits |-> 0,
    global_palette_colors |-> EmptyMem, local_palette_colors |-> EmptyMem,
    active_palette_colors |-> "null",
    lzw_code_start_size |-> 0, lzw_end_of_frame |-> 0,
    lzw_read_offset |-> 0, lzw_data_size |-> 0,
    anim_start_pos |-> 0,
    errs |-> {}, oob_in |-> FALSE ]

ZeroLz ==
  [ bitnum |-> 0, code |-> 0, oldcode |-> 0, codesize |-> 0, nextcode |-> 0,
    nextlim |-> 0, clear_code |-> 0, eoi_code |-> 0, sMask |-> 0, c |-> 0,
    ulBits |-> <<0, 0, 0, 0>>,
    current_pixel_idx |-> 0, current_line_idx |-> 0, interlaced_pass |-> 0 ]

(***************************************************************************)
(* Stream reader.                                                          *)
(***************************************************************************)
gif_report_error(c, error_code) == [c EXCEPT !.errs = @ \cup {error_code}]

\* gif_data[pos]; g is what the memory behind the input holds
InByte(pos, g) == IF pos < Len(gif_data) THEN gif_data[pos + 1] ELSE g

\* gif_read_u16_le(ctx->gif_data + ctx->current_pos): no bounds check
gif_read_u16_le(c, g) ==
  InByte(c.current_pos, g) + 256 * InByte(c.current_pos + 1, g)

\* the context after that read: a memory checker notes a read past the input
NoteU16(c) ==
  IF c.current_pos + 2 > Len(gif_data) THEN [c EXCEPT !.oob_in = TRUE] ELSE c

gif_read_bytes_internal(c, len) ==
  LET bytes_to_read == IF c.current_pos + len > c.gif_size
                       THEN c.gif_size - c.current_pos ELSE len
  IN [ c |-> IF bytes_to_read > 0
             THEN [c EXCEPT !.current_pos = @ + bytes_to_read] ELSE c,
       bytes |-> [i \in 1..bytes_to_read |-> gif_data[c.current_pos + i]],
       n |-> bytes_to_read ]

\* lines 361-365 without the else branch: the skip is never clamped
gif_skip_bytes_unclamped(c, len) ==
  [c EXCEPT !.current_pos = @ + len]

gif_skip_bytes_internal(c, len) ==
  IF c.current_pos + len <= c.gif_size
  THEN [c EXCEPT !.current_pos = @ + len]
  ELSE [c EXCEPT !.current_pos = c.gif_size]

gif_read_byte_internal(c) ==
  IF c.current_pos < c.gif_size
  THEN [c |-> [c EXCEPT !.current_pos = @ + 1], v |-> gif_data[c.current_pos + 1]]
  ELSE [c |-> gif_report_error(c, GIF_ERROR_EARLY_EOF), v |-> 0]

RECURSIVE gif_discard_sub_blocks(_)
gif_discard_sub_blocks(c) ==
  LET Size(r) ==
        IF r.v = 0 /\ r.c.current_pos >= r.c.gif_size
        THEN gif_report_error(r.c, GIF_ERROR_EARLY_EOF)
        ELSE IF r.v = 0 THEN gif_skip_bytes_internal(r.c, 0)
        ELSE gif_discard_sub_blocks(gif_skip_bytes_internal(r.c, r.v))
  IN Size(gif_read_byte_internal(c))

(***************************************************************************)
(* Extensions.                                                             *)
(***************************************************************************)
gif_read_graphic_control_ext(c, g) ==
  LET Packed(r) ==
        [NoteU16(r.c) EXCEPT
           !.disposal_method = (r.v \div 4) % 4,
           !.has_transparency = r.v % 2,
           !.frame_delay_ms = (gif_read_u16_le(r.c, g) * 10) % 65536]
      Index(r2) == gif_skip_bytes_internal([r2.c EXCEPT !.transparent_index = r2.v], 1)
  IN Index(gif_read_byte_internal(
       gif_skip_bytes_internal(
         Packed(gif_read_byte_internal(gif_skip_bytes_internal(c, 1))), 2)))

\* (int16_t) of a 16-bit value
ToInt16(v) == IF v >= 32768 THEN v - 65536 ELSE v

gif_read_application_ext(c, g) ==
  LET LoopCount(c1) ==
        gif_discard_sub_blocks(
          gif_skip_bytes_internal(
            [NoteU16(c1) EXCEPT !.loop_count = ToInt16(gif_read_u16_le(c1, g))], 2))
      SubBlock(sb) ==
        IF sb.v # 3
        THEN gif_discard_sub_blocks(gif_report_error(sb.c, GIF_ERROR_BAD_FILE))
        ELSE LoopCount(gif_skip_bytes_internal(sb.c, 1))
      Block(r) ==
        IF r.v = 11
        THEN SubBlock(gif_read_byte_internal(
               gif_read_bytes_internal(gif_read_bytes_internal(r.c, 8).c, 3).c))
        ELSE gif_discard_sub_blocks(r.c)
  IN Block(gif_read_byte_internal(c))

gif_read_ext(c, g) ==
  LET Label(r) ==
        CASE r.v = 249 -> gif_read_graphic_control_ext(r.c, g)
          [] r.v = 255 -> gif_read_application_ext(r.c, g)
          [] OTHER -> gif_discard_sub_blocks(gif_report_error(r.c, GIF_ERROR_DECODE))
  IN Label(gif_read_byte_internal(c))

gif_rewind(c) ==
  [c EXCEPT !.current_pos = c.anim_start_pos, !.lzw_end_of_frame = 0,
            !.lzw_read_offset = 0, !.lzw_data_size = 0]

(***************************************************************************)
(* Sub-block assembler and bit reader.  A decoder state d is a record      *)
(* [c: context, s: scratch arrays, l: locals, fb: canvas, wr: the pixels   *)
(* written, status: -1 while gif_decode_lzw runs, else what it returned].  *)
(***************************************************************************)
\* the while loop of gif_get_more_lzw_data; lastc is the local c
RECURSIVE ReadBlocks(_, _, _)
ReadBlocks(c, buf, lastc) ==
  LET Data(at, len, b) ==
        IF b.n < len
        THEN [c |-> gif_report_error([b.c EXCEPT !.lzw_data_size = @ + b.n],
                                     GIF_ERROR_EARLY_EOF),
              buf |-> WrSeq(buf, at, b.bytes), ok |-> FALSE]
        ELSE ReadBlocks([b.c EXCEPT !.lzw_data_size = @ + b.n],
                        WrSeq(buf, at, b.bytes), len)
      Block(r) ==
        IF r.v = 0
        THEN [c |-> [r.c EXCEPT !.lzw_end_of_frame = 1], buf |-> buf, ok |-> TRUE]
        ELSE Data(r.c.lzw_data_size, r.v, gif_read_bytes_internal(r.c, r.v))
  IN IF c.lzw_data_size < GIF_LZW_BASE_BUF_SIZE - GIF_LZW_CHUNK_SIZE
        /\ c.current_pos < c.gif_size
     THEN Block(gif_read_byte_internal(c))
     ELSE [c |-> c, buf |-> buf, ok |-> (lastc # 0 \/ c.lzw_end_of_frame # 0)]

\* the memmove of lines 475-481
ShiftBuffer(c, buf) ==
  IF c.lzw_read_offset > 0 /\ c.lzw_data_size - c.lzw_read_offset > 0
  THEN WrSeq(buf, 0, [i \in 1..(c.lzw_data_size - c.lzw_read_offset) |->
                        Rd(buf, c.lzw_read_offset + i - 1, scratch_fill)])
  ELSE buf

\* g: the value of the local c when the loop body never runs
gif_get_more_lzw_data(c, buf, g) ==
  IF c.lzw_end_of_frame # 0 THEN [c |-> c, buf |-> buf, ok |-> TRUE]
  ELSE ReadBlocks(IF c.lzw_read_offset > 0
                  THEN [c EXCEPT !.lzw_data_size = c.lzw_data_size - c.lzw_read_offset,
                                 !.lzw_read_offset = 0]
                  ELSE c,
                  ShiftBuffer(c, buf), g)

\* memcpy(&ulBits, p, 4) with p = scratch_lzw_buffer + at
LoadBits(buf, at) == [i \in 1..4 |-> Rd(buf, at + i - 1, scratch_fill)]

BitOf(ul, k) == IF k > 31 THEN 0 ELSE (ul[(k \div 8) + 1] \div (2 ^ (k % 8))) % 2

\* (uint16_t)((ulBits >> bitnum) & sMask), sMask = 2^n - 1
ExtractCode(ul, bitnum, sMask) ==
  SumSeq([j \in 1..16 |-> BitOf(ul, bitnum + j - 1) * (2 ^ (j - 1))]) % (sMask + 1)

GET_LZW_CODE(d, g) ==
  LET Refilled(bn, m) ==
        IF ~m.ok
        THEN [d EXCEPT !.c = m.c, !.s.lzw_buffer = m.buf,
                       !.l.bitnum = bn, !.l.code = d.l.eoi_code]
        ELSE [d EXCEPT !.c = m.c, !.s.lzw_buffer = m.buf,
                       !.l.ulBits = LoadBits(m.buf, m.c.lzw_read_offset),
                       !.l.code = ExtractCode(LoadBits(m.buf, m.c.lzw_read_offset),
                                              bn, d.l.sMask),
                       !.l.bitnum = bn + d.l.codesize]
  IN IF d.l.bitnum > 32 - d.l.codesize
     THEN Refilled(d.l.bitnum % 8,
                   gif_get_more_lzw_data(
                     [d.c EXCEPT !.lzw_read_offset = @ + (d.l.bitnum \div 8)],
                     d.s.lzw_buffer, g))
     ELSE [d EXCEPT !.l.code = ExtractCode(d.l.ulBits, d.l.bitnum, d.l.sMask),
                    !.l.bitnum = d.l.bitnum + d.l.codesize]

(***************************************************************************)
(* LZW dictionary and expander (safe mode).                                *)
(***************************************************************************)
\* the chain walk into temp_line_buf: at most n bytes, the last ones
RECURSIVE ChainWalk(_, _, _, _)
ChainWalk(s, code, n, acc) ==
  IF code = LINK_END \/ n = 0 THEN acc
  ELSE ChainWalk(s, Rd(s.lzw_table, code, LINK_END), n - 1,
                 <<Rd(s.lzw_pixels, code, scratch_fill)>> \o acc)

\* lines 720-725: the reset of the code width and of the table
ResetCodetable(d) ==
  [d EXCEPT !.l.codesize = d.c.lzw_code_start_size + 1,
            !.l.sMask = (2 ^ (d.c.lzw_code_start_size + 1)) - 1,
            !.l.nextcode = (d.l.eoi_code + 1) % 65536,
            !.l.nextlim = (2 ^ (d.c.lzw_code_start_size + 1)) % 65536,
            !.l.bitnum = 0,
            !.s.lzw_table = EmptyMem]

\* lines 735-745: the first code goes to the start of the line buffer
EmitFirst(d, px) ==
  [d EXCEPT !.l.c = d.l.code % 256,
            !.l.oldcode = d.l.code,
            !.s.line_buffer = WrSeq(@, 0, px),
            !.l.current_pixel_idx = @ + Len(px)]

\* init_codetable_safe up to the loop: lines 719-745
init_codetable_safe(d, g) ==
  LET First(d2) ==
        IF d2.l.code >= GIF_LZW_TABLE_ENTRIES
        THEN [d2 EXCEPT !.c = gif_report_error(d2.c, GIF_ERROR_DECODE),
                        !.status = GIF_ERROR_DECODE]
        ELSE EmitFirst(d2, ChainWalk(d2.s, d2.l.code, GIF_MAX_WIDTH, <<>>))
      SkipClear(d1) ==
        IF d1.l.code = d1.l.clear_code THEN GET_LZW_CODE(d1, g) ELSE d1
  IN First(SkipClear(GET_LZW_CODE(ResetCodetable(d), g)))

\* line 596 with the starts of the last two passes exchanged
interlaced_line_offset_swapped == <<0, 4, 1, 2>>

interlaced_line_offset == <<0, 4, 2, 1>>
interlaced_line_stride == <<8, 8, 4, 2>>

\* the interlace mapping of lines 779-784: the pass and line index it ends in
RECURSIVE InterlaceSeek(_, _, _)
InterlaceSeek(pass, line, h) ==
  LET y_draw == interlaced_line_offset[pass + 1]
                  + line * interlaced_line_stride[pass + 1]
  IN IF y_draw >= h /\ pass < 3 THEN InterlaceSeek(pass + 1, 0, h)
     ELSE [pass |-> pass, line |-> line, y_draw |-> y_draw]

\* line 969 left out: the local table stays active once one was loaded
PaletteOfNoRevert(c) ==
  IF c.local_palette_colors # EmptyMem THEN c.local_palette_colors
  ELSE c.global_palette_colors

PaletteOf(c) ==
  IF c.active_palette_colors = "local" THEN c.local_palette_colors
  ELSE c.global_palette_colors

\* line 798 with "!= 0" written for "== 2": every disposal but 0 restores
PixelColorAnyDisposal(c, pixel_index) ==
  IF c.has_transparency # 0 /\ pixel_index = c.transparent_index
  THEN IF c.disposal_method # 0
       THEN [k \in 1..3 |->
               Rd(IF c.active_palette_colors = "local" THEN c.local_palette_colors
                  ELSE c.global_palette_colors, c.background_index * 3 + k - 1, 0)]
       ELSE <<>>
  ELSE [k \in 1..3 |->
          Rd(IF c.active_palette_colors = "local" THEN c.local_palette_colors
             ELSE c.global_palette_colors, pixel_index * 3 + k - 1, 0)]

\* the color the compositor stores for the pixel index, <<>> for none
PixelColor(c, pixel_index) ==
  LET pal == PaletteOf(c) IN
  IF c.has_transparency # 0 /\ pixel_index = c.transparent_index
  THEN IF c.disposal_method = 2
       THEN [k \in 1..3 |-> Rd(pal, c.background_index * 3 + k - 1, 0)]
       ELSE <<>>
  ELSE [k \in 1..3 |-> Rd(pal, pixel_index * 3 + k - 1, 0)]

\* the compositor loop of lines 791-804 on canvas row frame_y_off + y_draw;
\* a store outside the canvas leaves the canvas as it was and is noted in wr
CompositeLine(d, y_draw) ==
  LET c == d.c
      row == c.frame_y_off + y_draw
      start == row * c.canvas_width * 3 + c.frame_x_off * 3
      col(i) == PixelColor(c, Rd(d.s.line_buffer, i, scratch_fill))
      stored == {i \in 0..(c.frame_width - 1) : col(i) # <<>>}
  IN [d EXCEPT
        !.fb = [k \in 1..Len(d.fb) |->
                  LET o == k - 1 - start IN
                  IF o >= 0 /\ o < 3 * c.frame_width /\ (o \div 3) \in stored
                  THEN col(o \div 3)[(o % 3) + 1] ELSE d.fb[k]],
        !.wr = @ \cup {<<c.frame_x_off + i, row>> : i \in stored}]

\* lines 776-807: the line flush
FlushLine(d) ==
  LET Interlaced(m) ==
        IF m.y_draw >= d.c.frame_height
        THEN [d EXCEPT !.l.interlaced_pass = m.pass,
                       !.l.current_line_idx = m.line,
                       !.c = gif_report_error(d.c, GIF_ERROR_DECODE),
                       !.status = GIF_ERROR_DECODE]
        ELSE [CompositeLine(d, m.y_draw) EXCEPT
                !.l.interlaced_pass = m.pass,
                !.l.current_line_idx = m.line + 1,
                !.l.current_pixel_idx = 0]
  IN IF d.l.current_pixel_idx >= d.c.frame_width
     THEN IF (d.c.ucGIFBits \div 64) % 2 = 1
          THEN Interlaced(InterlaceSeek(d.l.interlaced_pass, d.l.current_line_idx,
                                        d.c.frame_height))
          ELSE [CompositeLine(d, d.l.current_line_idx) EXCEPT
                  !.l.current_line_idx = @ + 1,
                  !.l.current_pixel_idx = 0]
     ELSE d

\* lines 764-768: the dictionary insertion
InsertEntry(d) ==
  LET l == d.l IN
  IF l.nextcode < GIF_LZW_TABLE_ENTRIES
  THEN LET px1 == Wr(d.s.lzw_pixels, l.nextcode, l.c)
           c2 == Rd(px1, l.code, scratch_fill)
       IN [d EXCEPT !.s.lzw_table = Wr(@, l.nextcode, l.oldcode),
                    !.s.lzw_pixels = Wr(px1, GIF_LZW_TABLE_ENTRIES + l.nextcode, c2),
                    !.l.c = c2]
  ELSE d

\* lines 769-774: nextcode++ and the width bump
BumpWidth(d) ==
  LET nc == (d.l.nextcode + 1) % 65536 IN
  IF nc >= d.l.nextlim /\ d.l.codesize < GIF_MAX_CODE_SIZE
  THEN [d EXCEPT !.l.nextcode = nc, !.l.codesize = @ + 1,
                 !.l.nextlim = (2 * d.l.nextlim) % 65536,
                 !.l.sMask = ((2 * d.l.nextlim) % 65536) - 1]
  ELSE [d EXCEPT !.l.nextcode = nc]

\* lines 754-762: the expansion of the code into the line buffer
EmitCode(d, px) ==
  [d EXCEPT !.s.line_buffer = WrSeq(@, d.l.current_pixel_idx, px),
            !.l.current_pixel_idx = @ + Len(px)]

\* line 808, not reached when the flush has returned an error
KeepOldCode(d) == IF d.status # -1 THEN d ELSE [d EXCEPT !.l.oldcode = d.l.code]

\* lines 753-809: a code that is neither CLEAR nor END
ExpandCode(d) ==
  KeepOldCode(FlushLine(BumpWidth(InsertEntry(
    EmitCode(d, ChainWalk(d.s, d.l.code, GIF_MAX_WIDTH, <<>>))))))

\* one pass of the loop body of lines 748-810
LzwLoopBody(d, g) ==
  LET Pulled(d1) ==
        IF d1.l.code = d1.l.clear_code THEN init_codetable_safe(d1, g)
        ELSE IF d1.l.code # d1.l.eoi_code THEN ExpandCode(d1)
        ELSE d1
  IN Pulled(GET_LZW_CODE(d, g))

\* lines 715-718: the literal codes
InitLiterals(pixels, clear_code) ==
  WrSeq(WrSeq(pixels, 0, [i \in 1..clear_code |-> (i - 1) % 256]),
        GIF_LZW_TABLE_ENTRIES, [i \in 1..clear_code |-> (i - 1) % 256])

\* lines 593-611 and 715-745: gif_decode_lzw up to its main loop
gif_decode_lzw_begin(d, g) ==
  LET Start(m, clear_code) ==
        IF ~m.ok
        THEN [d EXCEPT !.c = gif_report_error(m.c, GIF_ERROR_EARLY_EOF),
                       !.s.lzw_buffer = m.buf, !.status = GIF_ERROR_EARLY_EOF]
        ELSE init_codetable_safe(
               [d EXCEPT !.c = m.c,
                         !.s.lzw_buffer = m.buf,
                         !.s.lzw_pixels = InitLiterals(@, clear_code),
                         !.l = [ZeroLz EXCEPT !.ulBits = LoadBits(m.buf, 0),
                                              !.clear_code = clear_code,
                                              !.eoi_code = (clear_code + 1) % 65536]],
               g)
  IN Start(gif_get_more_lzw_data(
             [d.c EXCEPT !.lzw_read_offset = 0, !.lzw_data_size = 0,
                         !.lzw_end_of_frame = 0],
             d.s.lzw_buffer, g),
           (2 ^ d.c.lzw_code_start_size) % 65536)


(***************************************************************************)
(* The inputs.                                                             *)
(***************************************************************************)
Frame(gce, x, y, w, h, il, codes, px) ==
  [gce |-> gce, x |-> x, y |-> y, w |-> w, h |-> h, il |-> il, lct |-> <<>>,
   mcs |-> 2, codes |-> codes, px |-> px]

\* a frame that covers the w*h canvas, written from the pixel stream px
Encoded(gce, w, h, px) == Frame(gce, 0, 0, w, h, 0, LZWEncode(px, 2), px)

GifOf(kind, cw, ch, loop, frames, tail) ==
  [kind |-> kind, cw |-> cw, ch |-> ch, loop |-> loop, frames |-> frames,
   tail |-> tail, sig |-> HeaderBytes, gct |-> TRUE, bg |-> 0, keep |-> -1,
   ext |-> <<>>]

\* one frame per pixel stream over {0, 1} of at most MaxPixels pixels
RoundTripInputs ==
  UNION { { GifOf("rt", wh[1], wh[2], -1, <<Encoded(<<>>, wh[1], wh[2], px)>>, "T") :
              px \in [1..(wh[1] * wh[2]) -> {0, 1}] } :
          wh \in {d \in (1..MaxPixels) \X (1..MaxPixels) : d[1] * d[2] <= MaxPixels} }

\* disposal 2, transparent index 1, delay 5/100 s
SomeGce == <<2, 1, 5, 1>>
FrameA(gce) == Encoded(gce, 2, 1, <<1, 0>>)
FrameB(gce) == Encoded(gce, 2, 1, <<0, 1>>)

\* animations of one or two frames on a 2x1 canvas
AnimInputs ==
  { GifOf("anim", 2, 1, loop, fr, tail) :
      loop \in {-1, 0, 1, 2},
      fr \in { <<FrameA(<<>>)>>, <<FrameA(SomeGce)>>,
               <<FrameA(<<>>), FrameB(SomeGce)>>,
               <<FrameA(SomeGce), FrameB(<<>>)>>,
               <<FrameA(<<>>), FrameB(<<>>)>> },
      tail \in {"T", "CT", "TI", "N"} }

\* LZW streams that hold more pixels than the frame has
OverlongInputs ==
  { GifOf("long", cw, cw, 0,
          <<Frame(<<>>, 0, 0, 1, 1, il, <<4, 0, 1, 0, 1, 5>>, <<>>)>>, "T") :
      cw \in {1, 2}, il \in {0, 1} }

Inputs == RoundTripInputs \cup AnimInputs \cup OverlongInputs

\* the canvas bytes of the pixel indices px under the palette of the inputs:
\* index 0 black, index 1 white
ColorBytes(px) ==
  Concat([i \in 1..Len(px) |->
            IF px[i] = 1 THEN <<255, 255, 255>> ELSE <<0, 0, 0>>])

WellFormed(in) == in.kind \in {"rt", "anim"} /\ in.tail \in {"T", "CT"}

NumFrames(in) == Len(in.frames)

(***************************************************************************)
(* The API calls.                                                          *)
(***************************************************************************)
NewCanvas(c) == [k \in 1..(c.canvas_width * c.canvas_height * 3) |-> CanvasFill]

ZeroScratch ==
  [lzw_buffer |-> EmptyMem, lzw_table |-> EmptyMem, lzw_pixels |-> EmptyMem,
   line_buffer |-> EmptyMem]

ZeroObs ==
  [ncalls |-> 0, nrewinds |-> 0, argsok |-> TRUE, frame_pos |-> -1,
   written |-> {}, loops |-> 0, after_rewind |-> FALSE, rewound_at |-> -1,
   fresh |-> FALSE, init |-> <<>>, closed |-> FALSE]

InitFrom(inputs) ==
  /\ input \in inputs
  /\ gif_data = GifBytes(input)
  /\ scratch_fill \in {0, 1}
  /\ pc = "new"
  /\ ctx = ZeroCtx
  /\ scratch = ZeroScratch
  /\ lz = ZeroLz
  /\ canvas = <<>>
  /\ delay_out = 0
  /\ ret = 0
  /\ obs = ZeroObs
  /\ hist = <<>>

Init == InitFrom(Inputs)

GIF_SCRATCH_BUFFER_REQUIRED_SIZE ==
  GIF_LZW_BASE_BUF_SIZE + GIF_LZW_TABLE_ENTRIES * 2 + GIF_LZW_TABLE_ENTRIES * 2
    + GIF_MAX_WIDTH

\* lines 862-886 of gif_init: the 13 bytes of signature and screen descriptor
\* are in file_buf
gif_init_screen(c, file_buf) ==
  LET Table(c1, gct_size, gct) ==
        IF gct_size > GIF_MAX_COLORS
        THEN [r |-> GIF_ERROR_UNSUPPORTED_COLOR_DEPTH,
              c |-> gif_report_error(c1, GIF_ERROR_UNSUPPORTED_COLOR_DEPTH)]
        ELSE IF gct.n < gct_size * 3
        THEN [r |-> GIF_ERROR_EARLY_EOF,
              c |-> gif_report_error(
                      [gct.c EXCEPT !.global_palette_colors = WrSeq(@, 0, gct.bytes)],
                      GIF_ERROR_EARLY_EOF)]
        ELSE [r |-> GIF_SUCCESS,
              c |-> [gct.c EXCEPT !.global_palette_colors = WrSeq(@, 0, gct.bytes),
                                  !.background_index = file_buf[12],
                                  !.active_palette_colors = "global",
                                  !.anim_start_pos = gct.c.current_pos]]
      Screen(c1) ==
        IF file_buf[11] >= 128
        THEN Table(c1, 2 ^ ((file_buf[11] % 8) + 1),
                   gif_read_bytes_internal(c1, (2 ^ ((file_buf[11] % 8) + 1)) * 3))
        ELSE [r |-> GIF_SUCCESS,
              c |-> [c1 EXCEPT !.background_index = file_buf[12],
                               !.active_palette_colors = "global",
                               !.anim_start_pos = c1.current_pos]]
  IN IF SubSeq(file_buf, 1, 3) # <<71, 73, 70>>
        \/ (SubSeq(file_buf, 4, 6) # <<56, 55, 97>>
            /\ SubSeq(file_buf, 4, 6) # <<56, 57, 97>>)
     THEN [r |-> GIF_ERROR_BAD_FILE, c |-> gif_report_error(c, GIF_ERROR_BAD_FILE)]
     ELSE Screen([c EXCEPT !.canvas_width = file_buf[7] + 256 * file_buf[8],
                           !.canvas_height = file_buf[9] + 256 * file_buf[10]])

\* gif_init: what it returns and the context it leaves; a.ctx, a.data and
\* a.scratch say which pointers are non-null
\* gif_init with the scratch size tested behind the header read
gif_init_result_late_size(a) ==
  LET Header(hd) ==
        IF hd.n < 13
        THEN [r |-> GIF_ERROR_EARLY_EOF,
              c |-> gif_report_error(hd.c, GIF_ERROR_EARLY_EOF)]
        ELSE IF a.scratch_size < GIF_SCRATCH_BUFFER_REQUIRED_SIZE
        THEN [r |-> GIF_ERROR_BUFFER_TOO_SMALL,
              c |-> gif_report_error(hd.c, GIF_ERROR_BUFFER_TOO_SMALL)]
        ELSE gif_init_screen(hd.c, hd.bytes)
  IN IF ~a.ctx \/ ~a.data \/ a.size = 0 \/ ~a.scratch
     THEN [r |-> GIF_ERROR_INVALID_PARAM,
           c |-> IF a.ctx THEN gif_report_error(ctx, GIF_ERROR_INVALID_PARAM) ELSE ctx]
     ELSE Header(gif_read_bytes_internal(
                   [ZeroCtx EXCEPT !.gif_size = a.size, !.loop_count = -1], 13))

gif_init_result(a) ==
  LET Header(hd) ==
        IF hd.n < 13
        THEN [r |-> GIF_ERROR_EARLY_EOF,
              c |-> gif_report_error(hd.c, GIF_ERROR_EARLY_EOF)]
        ELSE gif_init_screen(hd.c, hd.bytes)
  IN IF ~a.ctx \/ ~a.data \/ a.size = 0 \/ ~a.scratch
     THEN [r |-> GIF_ERROR_INVALID_PARAM,
           c |-> IF a.ctx THEN gif_report_error(ctx, GIF_ERROR_INVALID_PARAM) ELSE ctx]
     ELSE IF a.scratch_size < GIF_SCRATCH_BUFFER_REQUIRED_SIZE
     THEN [r |-> GIF_ERROR_BUFFER_TOO_SMALL,
           c |-> gif_report_error(ctx, GIF_ERROR_BUFFER_TOO_SMALL)]
     ELSE Header(gif_read_bytes_internal(
                   [ZeroCtx EXCEPT !.gif_size = a.size, !.loop_count = -1], 13))

\* the arguments of gif_init: which pointers are non-null, the size passed
\* for the input and the size of the scratch region
GoodArgs ==
  [ctx |-> TRUE, data |-> TRUE, size |-> Len(gif_data), scratch |-> TRUE,
   scratch_size |-> GIF_SCRATCH_BUFFER_REQUIRED_SIZE]

InitArgs ==
  { GoodArgs,
    [GoodArgs EXCEPT !.scratch_size = GIF_SCRATCH_BUFFER_REQUIRED_SIZE - 1],
    [GoodArgs EXCEPT !.data = FALSE],
    [GoodArgs EXCEPT !.ctx = FALSE],
    [GoodArgs EXCEPT !.scratch = FALSE],
    [GoodArgs EXCEPT !.size = 0],
    [GoodArgs EXCEPT !.scratch = FALSE, !.scratch_size = 0] }

InitDone(i) ==
  /\ ret' = i.r
  /\ ctx' = i.c
  /\ pc' = IF i.r = GIF_SUCCESS THEN "idle" ELSE "failed"
  /\ canvas' = IF i.r = GIF_SUCCESS THEN NewCanvas(i.c) ELSE canvas

gif_init ==
  /\ pc = "new"
  /\ \E a \in InitArgs :
       /\ InitDone(gif_init_result(a))
       /\ obs' = [obs EXCEPT !.init = a]
  /\ UNCHANGED <<input, gif_data, scratch_fill, scratch, lz, delay_out, hist>>

\* gif_get_info with non-null arguments: lines 889-897
gif_get_info(c) ==
  [r |-> GIF_SUCCESS, width |-> c.canvas_width, height |-> c.canvas_height]

\* the return of gif_next_frame with value r
Return(r, c, s, fb, dly, wr, fpos) ==
  /\ pc' = "idle"
  /\ ret' = r
  /\ ctx' = c
  /\ scratch' = s
  /\ canvas' = fb
  /\ delay_out' = dly
  /\ obs' = [obs EXCEPT !.written = wr, !.frame_pos = fpos]
  /\ hist' = Append(hist, [ret |-> r, delay |-> dly, canvas |-> fb,
                           fpos |-> fpos, loops |-> obs.loops])

\* lines 906 and 918 with ">= 0" written for "> 0": a stored count of 0 loops
LoopsLeftZeroRepeats(c) == c.loop_count = -1 \/ c.loop_count >= 0

\* lines 906 and 918 without the test for -1: no default of endless play
LoopsLeftNoInfinite(c) == c.loop_count > 0

\* lines 906 and 918: the animation is to be played again
LoopsLeft(c) == c.loop_count = -1 \/ c.loop_count > 0

\* lines 907 and 919
CountLoop(c) == IF c.loop_count > 0 THEN [c EXCEPT !.loop_count = @ - 1] ELSE c

\* the observer's count of the passes back to the start of the animation
CountPass(n) == IF n < MaxLoops THEN n + 1 ELSE n

\* gif_next_frame with a null ctx, frame_buffer or delay_ms: lines 899-903
NextFrameNullArg ==
  /\ pc = "idle"
  /\ \E which \in {"ctx", "frame_buffer", "delay_ms"} :
       ctx' = IF which = "ctx" THEN ctx
              ELSE gif_report_error([ctx EXCEPT !.errs = {}], GIF_ERROR_INVALID_PARAM)
  /\ ret' = GIF_ERROR_INVALID_PARAM
  /\ obs' = [obs EXCEPT !.argsok = FALSE, !.written = {}]
  /\ UNCHANGED <<input, gif_data, scratch_fill, pc, scratch, lz, canvas,
                 delay_out, hist>>

\* lines 905-912 for the context c and the canvas fb of the call; o is what
\* the harness has noted of the call
EnterNextFrame(c, fb, o) ==
  IF c.current_pos >= c.gif_size /\ ~LoopsLeft(c)
  THEN /\ pc' = "idle"
       /\ ret' = 0
       /\ ctx' = c
       /\ obs' = o
       /\ hist' = Append(hist, [ret |-> 0, delay |-> delay_out, canvas |-> fb,
                                fpos |-> -1, loops |-> o.loops])
  ELSE /\ pc' = "sep"
       /\ ctx' = IF c.current_pos >= c.gif_size THEN gif_rewind(CountLoop(c)) ELSE c
       /\ obs' = IF c.current_pos >= c.gif_size THEN [o EXCEPT !.loops = CountPass(@)] ELSE o
       /\ UNCHANGED <<ret, hist>>

\* gif_next_frame with valid arguments, up to its separator loop: lines 899-913.
\* The caller passes the canvas of the call before, or (right after it called
\* gif_rewind) a new canvas with the starting contents.
NextFrameCall ==
  /\ pc = "idle"
  /\ obs.ncalls < MaxCalls
  /\ \E fresh \in {FALSE, obs.after_rewind} :
       /\ canvas' = IF fresh THEN NewCanvas(ctx) ELSE canvas
       /\ EnterNextFrame([ctx EXCEPT !.errs = {}, !.oob_in = FALSE], canvas',
                         [obs EXCEPT !.ncalls = @ + 1, !.argsok = TRUE,
                                     !.written = {}, !.frame_pos = -1,
                                     !.after_rewind = FALSE,
                                     !.fresh = IF obs.after_rewind THEN fresh ELSE @])
  /\ UNCHANGED <<input, gif_data, scratch_fill, scratch, lz, delay_out>>

\* gif_read_u16_le at the cursor and the skip of its two bytes
ReadU16(c, g, field) ==
  gif_skip_bytes_internal(
    [NoteU16(c) EXCEPT ![field] = gif_read_u16_le(c, g)], 2)

\* lines 943-953: the tests of the frame rectangle
\* lines 948-953 left out: only the zero sizes are refused
RectInvalidZeroOnly(c) ==
  c.frame_width = 0 \/ c.frame_height = 0

RectInvalid(c) ==
  \/ c.frame_width = 0 \/ c.frame_height = 0
  \/ c.frame_x_off + c.frame_width > c.canvas_width
  \/ c.frame_y_off + c.frame_height > c.canvas_height

\* lines 934-973: the image descriptor, the local color table and the
\* min-code-size byte; r = 2 when the LZW decode is to start
ReadDescriptor(c, g) ==
  LET MinCode(m) == [r |-> 2, c |-> [m.c EXCEPT !.lzw_code_start_size = m.v]]
      Local(c5, lct_size, lct) ==
        IF lct_size > GIF_MAX_COLORS
        THEN [r |-> -1, c |-> gif_report_error(c5, GIF_ERROR_UNSUPPORTED_COLOR_DEPTH)]
        ELSE IF lct.n < lct_size * 3
        THEN [r |-> -1,
              c |-> gif_report_error(
                      [lct.c EXCEPT !.local_palette_colors = WrSeq(@, 0, lct.bytes)],
                      GIF_ERROR_EARLY_EOF)]
        ELSE MinCode(gif_read_byte_internal(
               [lct.c EXCEPT !.local_palette_colors = WrSeq(@, 0, lct.bytes),
                             !.active_palette_colors = "local"]))
      Packed(f) ==
        IF f.v >= 128
        THEN Local([f.c EXCEPT !.ucGIFBits = f.v], 2 ^ ((f.v % 8) + 1),
                   gif_read_bytes_internal([f.c EXCEPT !.ucGIFBits = f.v],
                                           (2 ^ ((f.v % 8) + 1)) * 3))
        ELSE MinCode(gif_read_byte_internal(
               [f.c EXCEPT !.ucGIFBits = f.v, !.active_palette_colors = "global"]))
      Rect(c4) ==
        IF RectInvalid(c4)
        THEN [r |-> -1, c |-> gif_report_error(c4, GIF_ERROR_INVALID_FRAME_DIMENSIONS)]
        ELSE Packed(gif_read_byte_internal(c4))
  IN IF c.current_pos >= c.gif_size THEN [r |-> 0, c |-> c]
     ELSE Rect(ReadU16(ReadU16(ReadU16(ReadU16(c, g, "frame_x_off"),
                                               g, "frame_y_off"),
                                       g, "frame_width"),
                               g, "frame_height"))

\* lines 975-982: gif_decode_lzw has returned d.status
AfterDecode(d, fpos) ==
  IF d.status # GIF_SUCCESS
  THEN Return(-1, gif_report_error(d.c, d.status), d.s, d.fb, delay_out, d.wr, fpos)
  ELSE Return(1, d.c, d.s, d.fb, d.c.frame_delay_ms, d.wr, fpos)

\* the decoder either has returned or stands at the test of its main loop
DecodeGoesOn(d, fpos) ==
  /\ lz' = d.l
  /\ IF d.status # -1
     THEN AfterDecode(d, fpos)
     ELSE /\ pc' = "lzw"
          /\ ctx' = d.c
          /\ scratch' = d.s
          /\ canvas' = d.fb
          /\ obs' = [obs EXCEPT !.written = d.wr, !.frame_pos = fpos]
          /\ UNCHANGED <<ret, delay_out, hist>>

\* line 926 on: an image descriptor follows the separator at fpos
ImageFound(ds, g, fpos) ==
  IF ds.r # 2
  THEN Return(ds.r, ds.c, scratch, canvas, delay_out, obs.written, fpos)
       /\ UNCHANGED lz
  ELSE DecodeGoesOn(
         gif_decode_lzw_begin(
           [c |-> ds.c, s |-> scratch, l |-> lz, fb |-> canvas,
            wr |-> obs.written, status |-> -1], g),
         fpos)

\* lines 916-931: the separator byte sep.v has been read
Separator(sep, g) ==
  CASE sep.v = 59 ->
         IF LoopsLeft(sep.c)
         THEN /\ ctx' = gif_rewind(CountLoop(sep.c))
              /\ obs' = [obs EXCEPT !.loops = CountPass(@)]
              /\ UNCHANGED <<pc, scratch, lz, canvas, delay_out, ret, hist>>
         ELSE Return(0, sep.c, scratch, canvas, delay_out, obs.written, obs.frame_pos)
              /\ UNCHANGED lz
    [] sep.v = 33 ->
         /\ ctx' = gif_read_ext(sep.c, g)
         /\ UNCHANGED <<pc, scratch, lz, canvas, delay_out, ret, obs, hist>>
    [] sep.v = 44 -> ImageFound(ReadDescriptor(sep.c, g), g, ctx.current_pos)
    [] OTHER ->
         Return(-1, gif_report_error(sep.c, GIF_ERROR_BAD_FILE), scratch, canvas,
                delay_out, obs.written, obs.frame_pos)
         /\ UNCHANGED lz

\* one pass of the separator loop of lines 914-932, and what follows it when
\* the loop is left
SeparatorStep ==
  /\ pc = "sep"
  /\ \E g \in Garbage :
       IF ctx.current_pos >= ctx.gif_size
       THEN Return(0, ctx, scratch, canvas, delay_out, obs.written, obs.frame_pos)
            /\ UNCHANGED lz
       ELSE Separator(gif_read_byte_internal(ctx), g)
  /\ UNCHANGED <<input, gif_data, scratch_fill>>

\* the decoder state at the test of the main loop of gif_decode_lzw
DecoderState ==
  [c |-> ctx, s |-> scratch, l |-> lz, fb |-> canvas, wr |-> obs.written,
   status |-> -1]

\* the test of the main loop of gif_decode_lzw (line 748) and one pass of its body
LzwStep ==
  /\ pc = "lzw"
  /\ lz.current_line_idx < MaxLines
  /\ \E g \in Garbage :
       IF lz.code = lz.eoi_code
       THEN AfterDecode([DecoderState EXCEPT !.status = GIF_SUCCESS], obs.frame_pos)
            /\ UNCHANGED lz
       ELSE DecodeGoesOn(LzwLoopBody(DecoderState, g), obs.frame_pos)
  /\ UNCHANGED <<input, gif_data, scratch_fill>>

\* the caller calls gif_rewind between two frames
Rewind ==
  /\ pc = "idle"
  /\ obs.nrewinds < MaxRewinds
  /\ ctx' = gif_rewind(ctx)
  /\ obs' = [obs EXCEPT !.nrewinds = @ + 1, !.after_rewind = TRUE,
                        !.rewound_at = obs.ncalls]
  /\ UNCHANGED <<input, gif_data, scratch_fill, pc, scratch, lz, canvas,
                 delay_out, ret, hist>>

Next ==
  \/ gif_init
  \/ NextFrameNullArg
  \/ NextFrameCall
  \/ SeparatorStep
  \/ LzwStep
  \/ Rewind

Spec == Init /\ [][Next]_vars

(***************************************************************************)
(* The claims.  hist[n] is the outcome of the n-th gif_next_frame call     *)
(* with valid arguments: what it returned, the caller's delay and canvas   *)
(* after it, the offset of the image separator it decoded from (-1: none), *)
(* and the number of rewinds gif_next_frame itself had done by then.       *)
(***************************************************************************)
Started == pc \in {"idle", "sep", "lzw"}

\* the frame, in encoded order, that the n-th call of an endless or repeated
\* playback is to produce
FrameNo(n) == ((n - 1) % NumFrames(input)) + 1

\* the n-th call produced frame j of the input
Produced(n, j) == hist[n].ret = 1 /\ hist[n].fpos = FramePos(input, j)

\* C1: every call of gif_next_frame, also one with a null context, canvas or
\* delay pointer, returns 1, 0 or -1 and no other value.
C1_ReturnsOneZeroMinusOne ==
  (obs.ncalls > 0 \/ ~obs.argsok) => ret \in {1, 0, -1}

\* C2: every pixel gif_next_frame stores into the canvas has
\* 0 <= x < canvas_width and 0 <= y < canvas_height, for interlaced and
\* non-interlaced frames, also when the LZW stream holds more pixels than the
\* frame has.
C2_NoOutOfBoundsWrites ==
  \A xy \in obs.written :
    /\ xy[1] >= 0 /\ xy[1] < ctx.canvas_width
    /\ xy[2] >= 0 /\ xy[2] < ctx.canvas_height

\* C3: for a frame written by a conforming LZW encoder from a pixel-index
\* stream of frame_width * frame_height indices, gif_next_frame returns 1 and
\* the canvas holds, in row-major order, the colors of exactly that stream.
C3_LzwRoundTrip ==
  (input.kind = "rt" /\ Len(hist) >= 1) =>
    /\ hist[1].ret = 1
    /\ hist[1].canvas = ColorBytes(input.frames[1].px)

\* C4: a graphic-control extension applies to the next image only: an image
\* with no graphic-control extension since the image before it is composited
\* with disposal 0 and without transparency.
C4_GceBindsNextImageOnly ==
  \A j \in 1..NumFrames(input) :
    ( /\ pc = "idle" /\ obs.argsok /\ ret = 1
      /\ obs.frame_pos = FramePos(input, j)
      /\ input.frames[j].gce = <<>> )
    => (ctx.disposal_method = 0 /\ ctx.has_transparency = 0)

\* C5: for a well-formed GIF of F frames with a stored loop count k > 0, the
\* first (k+1)*F calls return 1, with the frames in encoded order, and the
\* call after them returns 0.
C5_FiniteLoopCount ==
  (Started /\ WellFormed(input) /\ input.loop > 0 /\ obs.nrewinds = 0) =>
    \A n \in 1..Len(hist) :
      /\ n <= (input.loop + 1) * NumFrames(input) => Produced(n, FrameNo(n))
      /\ n = (input.loop + 1) * NumFrames(input) + 1 => hist[n].ret = 0

\* C6: for a well-formed GIF of F frames with a stored loop count of 0, the
\* first F calls return 1, with the frames in encoded order, and call F+1
\* returns 0 with no rewind done.
C6_PlayOnce ==
  (Started /\ WellFormed(input) /\ input.loop = 0 /\ obs.nrewinds = 0) =>
    \A n \in 1..Len(hist) :
      /\ n <= NumFrames(input) => Produced(n, n)
      /\ n = NumFrames(input) + 1 => (hist[n].ret = 0 /\ hist[n].loops = 0)

\* a two-frame animation stored with loop count 0 has been played to its end
C6_Witness ==
  /\ WellFormed(input) /\ input.loop = 0 /\ obs.nrewinds = 0
  /\ NumFrames(input) = 2
  /\ Len(hist) = 3
  /\ Produced(1, 1) /\ Produced(2, 2)
  /\ hist[3].ret = 0 /\ hist[3].loops = 0

\* C7: for a well-formed GIF of F frames without a loop extension, the loop
\* counter stays -1, no call returns 0, and the n-th call returns 1 with
\* frame ((n-1) mod F)+1: at the trailer the same call rewinds and goes on.
C7_InfiniteByDefault ==
  (Started /\ WellFormed(input) /\ input.loop = -1) =>
    /\ ctx.loop_count = -1
    /\ \A n \in 1..Len(hist) :
         /\ hist[n].ret # 0
         /\ obs.nrewinds = 0 => Produced(n, FrameNo(n))

\* a two-frame animation without loop extension is in its third playback:
\* the fifth call has passed the trailer twice and produced frame 1
C7_Witness ==
  /\ WellFormed(input) /\ input.loop = -1 /\ obs.nrewinds = 0
  /\ NumFrames(input) = 2
  /\ Len(hist) = 5
  /\ Produced(5, 1) /\ hist[5].loops = 2
  /\ ctx.loop_count = -1

\* the 1x1 GIF89a with the palette black, white and the one image whose LZW
\* stream is CLEAR, 1, END at min-code-size 2; no extensions
MinimalGif == GifOf("rt", 1, 1, -1, <<Encoded(<<>>, 1, 1, <<1>>)>>, "T")

\* C8: on the minimal static GIF the first call returns 1 with the canvas
\* FF FF FF and delay 0, and the second call returns 0.
C8_MinimalStaticGif ==
  (input = MinimalGif /\ obs.nrewinds = 0) =>
    /\ Len(hist) >= 1 =>
         /\ hist[1].ret = 1
         /\ hist[1].canvas = <<255, 255, 255>>
         /\ hist[1].delay = 0
    /\ Len(hist) >= 2 => hist[2].ret = 0

\* C9: once a call has returned 0, every later call, with no gif_rewind or
\* gif_init in between, returns 0 and leaves the canvas as it was, whatever
\* follows the trailer in the input.
C9_FinishedStaysFinished ==
  obs.nrewinds = 0 =>
    \A n \in 1..(Len(hist) - 1) :
      hist[n].ret = 0 =>
        (hist[n + 1].ret = 0 /\ hist[n + 1].canvas = hist[n].canvas)

\* calls 1..p are a full playback: p - 1 frames and then the 0
FullPlayback(p) ==
  /\ p \in 2..Len(hist)
  /\ hist[p].ret = 0
  /\ \A i \in 1..(p - 1) : hist[i].ret = 1

\* C10: after a full playback of a multi-frame input, gif_rewind and a second
\* playback on a canvas with the starting contents give the return values,
\* delays and canvases of the first playback; and gif_rewind done twice
\* leaves the context that gif_rewind done once leaves.
C10_RewindIdempotence ==
  /\ gif_rewind(gif_rewind(ctx)) = gif_rewind(ctx)
  /\ \A p \in 1..Len(hist) :
       ( /\ WellFormed(input) /\ NumFrames(input) >= 2
         /\ FullPlayback(p)
         /\ obs.nrewinds = 1 /\ obs.rewound_at = p /\ obs.fresh )
       => \A i \in 1..p :
            p + i <= Len(hist) =>
              /\ hist[p + i].ret = hist[i].ret
              /\ hist[p + i].delay = hist[i].delay
              /\ hist[p + i].canvas = hist[i].canvas

(***************************************************************************)
(* gif_close, and a second set of inputs: local color tables, frames       *)
(* inside the canvas, interlaced frames, files cut short, bad signatures,  *)
(* bad rectangles, bad codes.                                              *)
(***************************************************************************)
\* gif_close: lines 994-998
gif_close(c) == ZeroCtx

\* the caller calls gif_close between two frames
Close ==
  /\ pc = "idle"
  /\ ~obs.closed
  /\ ctx' = gif_close(ctx)
  /\ obs' = [obs EXCEPT !.closed = TRUE]
  /\ UNCHANGED <<input, gif_data, scratch_fill, pc, scratch, lz, canvas,
                 delay_out, ret, hist>>

\* the global color table ScreenBytes writes, and a local one: red, green
GlobalTable == <<0, 0, 0, 255, 255, 255>>
LocalTable == <<255, 0, 0, 0, 255, 0>>

WithTable(f, lct) == [f EXCEPT !.lct = lct]

\* endless two-frame animations in which one frame or both carry a local table
PaletteInputs ==
  { GifOf("pal", 2, 1, -1, fr, "T") :
      fr \in { <<WithTable(FrameA(<<>>), LocalTable), FrameB(<<>>)>>,
               <<FrameA(<<>>), WithTable(FrameB(<<>>), LocalTable)>>,
               <<WithTable(FrameA(<<>>), LocalTable),
                 WithTable(FrameB(<<>>), LocalTable)>> } }

\* the canvas bytes of the pixel indices px looked up in the color table
ColorsFrom(px, table) ==
  Concat([i \in 1..Len(px) |-> SubSeq(table, 3 * px[i] + 1, 3 * px[i] + 3)])

\* the table the image descriptor of frame f selects
TableOf(f) == IF f.lct = <<>> THEN GlobalTable ELSE f.lct

\* a 2x1 frame inside a 3x2 canvas with background index 1, under every
\* disposal method, with and without transparency, for both indices
CompositeInputs ==
  { [GifOf("comp", 3, 2, 0,
           <<Frame(<<disposal, transparency, 0, index>>, 1, 1, 2, 1, 0,
                   <<4, 1, 0, 5>>, <<1, 0>>)>>, "T") EXCEPT !.bg = 1] :
      disposal \in 0..3, transparency \in {0, 1}, index \in {0, 1} }

\* a local table of four colors: red, green, blue, yellow
FourTable == <<255, 0, 0, 0, 255, 0, 0, 0, 255, 255, 255, 0>>

\* row y of the image of the interlace family: no two rows are alike
Row(y) == <<(y \div 4) % 4, y % 4>>

\* the rows below h of the pass that starts at row start with the given stride
RECURSIVE PassRows(_, _, _)
PassRows(start, stride, h) ==
  IF start >= h THEN <<>> ELSE <<start>> \o PassRows(start + stride, stride, h)

\* the order in which an interlaced file of height h carries the rows
PassOrder(h) ==
  PassRows(0, 8, h) \o PassRows(4, 8, h) \o PassRows(2, 4, h) \o PassRows(1, 2, h)

\* CLEAR, one literal code per pixel of the lines, END
LiteralCodes(lines) == <<4>> \o Concat(lines) \o <<5>>

\* a frame of width 2 and height h at row 1 of a 2 x (h+1) canvas whose file
\* carries the given lines
LinesInput(kind, h, il, lines) ==
  GifOf(kind, 2, h + 1, 0,
        <<WithTable(Frame(<<>>, 0, 1, 2, h, il, LiteralCodes(lines), <<>>),
                    FourTable)>>, "T")

\* every height: the image interlaced, the image interlaced with one more
\* line behind it, and the image not interlaced
InterlaceInputs ==
  UNION { { LinesInput("lace", h, 1, [k \in 1..h |-> Row(PassOrder(h)[k])]),
            LinesInput("lace+", h, 1,
                       [k \in 1..(h + 1) |->
                          IF k <= h THEN Row(PassOrder(h)[k]) ELSE Row(0)]),
            LinesInput("rows", h, 0, [k \in 1..h |-> Row(k - 1)]) } :
          h \in 1..MaxHeight }

\* codes above next_code, whose entries are unset: 7 when next_code is 6,
\* and 9 when next_code is 7
BadCodeInputs ==
  { GifOf("badcode", 2, 1, 0,
          <<Frame(<<>>, 0, 0, 2, 1, 0, codes, <<>>)>>, "T") :
      codes \in { <<4, 0, 7, 5>>, <<4, 0, 1, 9, 5>> } }

\* END after one of the two lines of a 2x2 frame, and after one pixel of two
ShortInputs ==
  { GifOf("short", 2, 2, 0, <<Frame(<<>>, 0, 0, 2, 2, 0, <<4, 1, 0, 5>>, <<>>)>>, "T"),
    GifOf("short", 2, 1, 0, <<Frame(<<>>, 0, 0, 2, 1, 0, <<4, 1, 5>>, <<>>)>>, "T") }

\* a one-frame file without trailer
Untailed == GifOf("cut", 2, 1, 0, <<FrameA(<<>>)>>, "N")

\* the file ends 1 to 4 bytes early: before the zero-length block, inside the
\* data sub-block, behind its size byte, behind the min-code-size byte
CutInputs ==
  { [Untailed EXCEPT !.keep = Len(WholeGifBytes(Untailed)) - n] : n \in 1..4 }

\* the file ends inside the application extension, behind the image
\* separator, and inside the image descriptor
TruncInputs ==
  { [Untailed EXCEPT !.kind = "trunc", !.keep = k] : k \in {22, 30, 39, 42, 45} }

\* frame rectangles on a 2x2 canvas: the last one is inside, the others not
RectInputs ==
  { GifOf("rect", 2, 2, 0,
          <<Frame(<<>>, r[1], r[2], r[3], r[4], il, <<4, 1, 0, 5>>, <<>>)>>, "T") :
      r \in { <<0, 0, 0, 1>>, <<0, 0, 1, 0>>, <<1, 0, 2, 1>>, <<0, 1, 1, 2>>,
              <<2, 0, 1, 1>>, <<0, 0, 3, 3>>, <<1, 1, 1, 1>> },
      il \in {0, 1} }

\* signatures, with and without global color table, cut at several lengths;
\* the canvas is 257 x 1, so both bytes of the width count
HeaderInputs ==
  { [GifOf("head", 257, 1, 0, <<FrameA(<<>>)>>, "T")
       EXCEPT !.sig = sig, !.gct = gct, !.keep = keep] :
      sig \in { HeaderBytes, <<71, 73, 70, 56, 55, 97>>,
                <<71, 73, 70, 56, 56, 97>>, <<74, 73, 70, 56, 57, 97>> },
      gct \in BOOLEAN,
      keep \in {-1, 0, 5, 12, 13, 15, 18, 19} }

\* graphic-control delays in hundredths of a second
DelayInputs ==
  { GifOf("delay", 2, 1, 0, <<FrameA(<<0, 0, d, 0>>)>>, "T") :
      d \in {0, 1, 6553, 6554, 65535} }

ExtraInputs ==
  PaletteInputs \cup CompositeInputs \cup InterlaceInputs \cup BadCodeInputs
    \cup ShortInputs \cup CutInputs \cup RectInputs \cup HeaderInputs
    \cup DelayInputs \cup TruncInputs

InitExtra == InitFrom(ExtraInputs)

NextExtra == Next \/ Close

SpecExtra == InitExtra /\ [][NextExtra]_vars

(***************************************************************************)
(* The claims checked under SpecExtra.                                     *)
(***************************************************************************)
\* the last call had valid arguments, returned 1 and decoded frame j
JustProduced(j) ==
  /\ pc = "idle" /\ obs.argsok /\ ~obs.closed /\ ret = 1
  /\ obs.frame_pos = FramePos(input, j)

\* the first n bytes of the stored global palette
StoredGlobal(n) == [k \in 1..n |-> Rd(ctx.global_palette_colors, k - 1, 0)]

\* C11: an image is looked up in the local color table if and only if its
\* descriptor carries one; a frame without one uses the global palette, also
\* after a frame with one; the global palette is as gif_init stored it.
C11_PaletteScope ==
  /\ \A j \in 1..NumFrames(input) :
       JustProduced(j) =>
         (ctx.active_palette_colors = "local" <=> input.frames[j].lct # <<>>)
  /\ input.kind = "pal" =>
       \A n \in 1..Len(hist) :
         hist[n].ret = 1 =>
           \E j \in 1..NumFrames(input) :
                /\ Produced(n, j)
                /\ hist[n].canvas =
                     ColorsFrom(input.frames[j].px, TableOf(input.frames[j]))
  /\ (Started /\ ~obs.closed /\ input.gct) => StoredGlobal(6) = GlobalTable

\* frame 1 was drawn from its local table and frame 2, which has none, from
\* the global palette
C11_Witness ==
  /\ input.kind = "pal" /\ Len(hist) >= 2
  /\ input.frames[1].lct = LocalTable /\ input.frames[2].lct = <<>>
  /\ Produced(1, 1) /\ hist[1].canvas = <<0, 255, 0, 255, 0, 0>>
  /\ Produced(2, 2) /\ hist[2].canvas = <<0, 0, 0, 255, 255, 255>>
  /\ JustProduced(2) /\ ctx.active_palette_colors = "global"

\* the three bytes of canvas pixel (x, y)
PixelAt(fb, x, y) ==
  SubSeq(fb, 3 * (y * ctx.canvas_width + x) + 1, 3 * (y * ctx.canvas_width + x) + 3)

\* the three bytes of entry idx of the active palette
ActiveColor(idx) ==
  [k \in 1..3 |->
     Rd(IF ctx.active_palette_colors = "local" THEN ctx.local_palette_colors
        ELSE ctx.global_palette_colors, 3 * idx + k - 1, 0)]

\* this step of gif_decode_lzw has flushed a line
LineFlushed ==
  /\ pc = "lzw" /\ pc' = "lzw"
  /\ <<lz'.interlaced_pass, lz'.current_line_idx>>
       # <<lz.interlaced_pass, lz.current_line_idx>>

\* the frame row of the line this step has flushed
FlushedRow ==
  IF (ctx.ucGIFBits \div 64) % 2 = 1
  THEN <<0, 4, 2, 1>>[lz'.interlaced_pass + 1]
         + (lz'.current_line_idx - 1) * <<8, 8, 4, 2>>[lz'.interlaced_pass + 1]
  ELSE lz'.current_line_idx - 1

\* what the compositor rule gives for canvas pixel (x, y) when the line with
\* the pixel indices line (column 0 first) is flushed to canvas row
RuleColor(x, y, row, line) ==
  IF y = row /\ x >= ctx.frame_x_off /\ x < ctx.frame_x_off + ctx.frame_width
  THEN IF ctx.has_transparency # 0
          /\ line[x - ctx.frame_x_off + 1] = ctx.transparent_index
       THEN IF ctx.disposal_method = 2 THEN ActiveColor(ctx.background_index)
            ELSE PixelAt(canvas, x, y)
       ELSE ActiveColor(line[x - ctx.frame_x_off + 1])
  ELSE PixelAt(canvas, x, y)

\* C12: the flush of a line sets destination pixel (x_off + x, y_draw) to the
\* background color when the index is the transparent one and disposal is 2,
\* leaves it alone when the index is the transparent one and disposal is 0, 1
\* or 3, and sets it to palette[idx] otherwise; no other canvas pixel changes.
C12_CompositorRule ==
  [][ LineFlushed =>
        \A x \in 0..(ctx.canvas_width - 1), y \in 0..(ctx.canvas_height - 1) :
          PixelAt(canvas', x, y) =
            RuleColor(x, y, ctx.frame_y_off + FlushedRow,
                      [i \in 1..ctx.frame_width |->
                         Rd(scratch'.line_buffer, i - 1, scratch_fill)]) ]_vars

\* a line 1, 0 with transparent index 0 and disposal 2 was flushed into row 1
\* at column 1 of the 3x2 canvas: white for index 1, the background color
\* (index 1, white) for the transparent pixel, all else as it was
C12_Witness ==
  /\ input.kind = "comp"
  /\ input.frames[1].gce = <<2, 1, 0, 0>>
  /\ Len(hist) = 1 /\ hist[1].ret = 1
  /\ obs.written = {<<1, 1>>, <<2, 1>>}
  /\ hist[1].canvas = <<7, 7, 7, 7, 7, 7, 7, 7, 7,
                        7, 7, 7, 255, 255, 255, 255, 255, 255>>

\* the last call had valid arguments and has returned
JustReturned == pc = "idle" /\ obs.argsok /\ ~obs.closed /\ Len(hist) > 0

\* the canvas of the interlace family once the image of height h is complete:
\* row 0 as the caller left it, row 1 + y with row y of the image
ImageCanvas(h) ==
  [i \in 1..6 |-> CanvasFill]
    \o Concat([y \in 1..h |-> ColorsFrom(Row(y - 1), FourTable)])

\* C13: the lines of an interlaced frame of height h, carried in the order of
\* the passes 0,8,.. 4,12,.. 2,6,.. 1,3,.., land each in its own row below
\* y_off, so the canvas equals that of the same frame stored non-interlaced
\* with every frame pixel written; one more line after the last pass makes
\* the call fail with GIF_ERROR_DECODE.
C13_InterlaceAddressing ==
  /\ input.kind \in {"lace", "rows"} =>
       /\ \A n \in 1..Len(hist) :
            hist[n].ret = 1 =>
              hist[n].canvas = ImageCanvas(input.frames[1].h)
       /\ JustReturned /\ Len(hist) = 1 =>
            /\ ret = 1
            /\ obs.written = (0..1) \X (1..input.frames[1].h)
  /\ input.kind = "lace+" /\ JustReturned /\ Len(hist) = 1 =>
       ret = -1 /\ GIF_ERROR_DECODE \in ctx.errs

\* the interlaced frame of the greatest height has been produced
C13_Witness ==
  /\ JustReturned /\ Len(hist) = 1
  /\ input.kind = "lace" /\ input.frames[1].h = MaxHeight
  /\ ret = 1 /\ canvas = ImageCanvas(MaxHeight)

\* an interlaced frame of height 5 with a sixth line has failed
C13_ExtraLineSeen ==
  /\ JustReturned /\ Len(hist) = 1
  /\ input.kind = "lace+" /\ input.frames[1].h = 5
  /\ ret = -1 /\ ctx.errs = {GIF_ERROR_DECODE}

\* C14: the call that meets a code above next_code, whose dictionary entry
\* has not been set since the last CLEAR, returns -1 and reports
\* GIF_ERROR_DECODE.
C14_InvalidCodeFails ==
  input.kind = "badcode" /\ JustReturned /\ Len(hist) = 1 =>
    ret = -1 /\ GIF_ERROR_DECODE \in ctx.errs

\* C15: the call that meets the END code before frame_width * frame_height
\* pixels were emitted returns -1 and reports GIF_ERROR_DECODE.
C15_PrematureEndFails ==
  input.kind = "short" /\ JustReturned /\ Len(hist) = 1 =>
    ret = -1 /\ GIF_ERROR_DECODE \in ctx.errs

\* C16: the call made on a file that ends before the zero-length block of the
\* frame's data returns -1, never 1 or 0.
C16_TruncatedDataFails ==
  input.kind = "cut" /\ JustReturned /\ Len(hist) = 1 => ret = -1

\* the rectangle of the first image descriptor of the file is empty or
\* reaches beyond the canvas
FirstRectBad ==
  \/ input.frames[1].w = 0 \/ input.frames[1].h = 0
  \/ input.frames[1].x + input.frames[1].w > input.cw
  \/ input.frames[1].y + input.frames[1].h > input.ch

\* C17: a descriptor with frame_width = 0, frame_height = 0,
\* x_off + frame_width > canvas_width or y_off + frame_height > canvas_height
\* makes the call return -1 with GIF_ERROR_INVALID_FRAME_DIMENSIONS and no
\* canvas byte written; so while a frame is being decoded its rectangle lies
\* inside the canvas.
C17_FrameRectangleValidation ==
  /\ input.kind = "rect" /\ FirstRectBad /\ JustReturned /\ Len(hist) = 1 =>
       /\ ret = -1
       /\ GIF_ERROR_INVALID_FRAME_DIMENSIONS \in ctx.errs
       /\ obs.written = {}
       /\ canvas = NewCanvas(ctx)
  /\ pc = "lzw" =>
       /\ ctx.frame_x_off + ctx.frame_width <= ctx.canvas_width
       /\ ctx.frame_y_off + ctx.frame_height <= ctx.canvas_height

\* the 3x3 frame on the 2x2 canvas has been refused, canvas untouched
C17_Witness ==
  /\ input.kind = "rect" /\ input.frames[1].w = 3
  /\ JustReturned /\ Len(hist) = 1
  /\ ret = -1 /\ ctx.errs = {GIF_ERROR_INVALID_FRAME_DIMENSIONS}
  /\ canvas = NewCanvas(ctx)

\* the 1x1 frame at (1, 1) of the 2x2 canvas is being decoded
C17_InsideSeen ==
  input.kind = "rect" /\ pc = "lzw" /\ ctx.frame_x_off = 1 /\ ctx.frame_y_off = 1

\* what the first failing check of gif_init gives for the arguments a and
\* the file bytes data, in the order parameters, scratch size, 13 header
\* bytes, signature, global color table; GIF_SUCCESS when none fails
InitOutcome(a, data) ==
  IF ~a.ctx \/ ~a.data \/ ~a.scratch \/ a.size = 0
  THEN GIF_ERROR_INVALID_PARAM
  ELSE IF a.scratch_size < GIF_SCRATCH_BUFFER_REQUIRED_SIZE
  THEN GIF_ERROR_BUFFER_TOO_SMALL
  ELSE IF a.size < 13 THEN GIF_ERROR_EARLY_EOF
  ELSE IF SubSeq(data, 1, 6) \notin { <<71, 73, 70, 56, 55, 97>>,
                                      <<71, 73, 70, 56, 57, 97>> }
  THEN GIF_ERROR_BAD_FILE
  ELSE IF data[11] >= 128 /\ a.size < 13 + 3 * 2 ^ ((data[11] % 8) + 1)
  THEN GIF_ERROR_EARLY_EOF
  ELSE GIF_SUCCESS

\* gif_init has returned and no other call was made since
JustInitialised ==
  pc \in {"idle", "failed"} /\ obs.ncalls = 0 /\ obs.argsok /\ ~obs.closed

C18_TableEofSeen ==
  /\ input.kind = "head" /\ input.gct /\ input.keep = 18
  /\ pc = "failed" /\ ret = GIF_ERROR_EARLY_EOF

\* gif_init has failed on a signature that is neither GIF87a nor GIF89a
C18_BadFileSeen ==
  /\ input.kind = "head" /\ input.sig[5] = 56
  /\ pc = "failed" /\ ret = GIF_ERROR_BAD_FILE

\* gif_init has refused a scratch region one byte too small
C18_TooSmallSeen ==
  /\ input.kind = "head" /\ input.keep = 5
  /\ pc = "failed" /\ ret = GIF_ERROR_BUFFER_TOO_SMALL

\* C19: after a successful gif_init, whatever gif_next_frame, gif_rewind and
\* gif_close calls follow and whatever the input, current_pos <= gif_size and
\* anim_start_pos <= gif_size.
C19_CursorInvariant ==
  Started =>
    /\ ctx.current_pos <= ctx.gif_size
    /\ ctx.anim_start_pos <= ctx.gif_size

\* a call on the file cut inside its image descriptor has returned: the skips
\* past the missing bytes have left the cursor at the end of the input
C19_Witness ==
  /\ input.kind = "trunc" /\ input.keep = 42
  /\ pc = "idle" /\ ~obs.closed /\ Len(hist) > 0
  /\ ctx.current_pos = 42 /\ ctx.gif_size = 42 /\ ctx.anim_start_pos = 19

\* the context has been closed
C19_ClosedSeen ==
  obs.closed /\ Len(hist) > 0 /\ pc = "idle" /\ ctx.gif_size = 0

\* C20: the delay reported by the call that decodes the image bound to a
\* graphic control extension with delay d (hundredths of a second, 0..65535)
\* is 10 * d.
C20_DelayConversion ==
  input.kind = "delay" /\ JustReturned /\ Len(hist) = 1 /\ ret = 1 =>
    delay_out = 10 * input.frames[1].gce[3]

(***************************************************************************)
(* Determinism, error propagation, and the LZW stream reader.              *)
(***************************************************************************)
\* C21: decoding the same input again with the same calls and the same
\* starting canvas gives the same return value, delay and canvas: a one-frame
\* file without extensions is decoded, the caller rewinds and decodes it
\* again on a canvas with the starting contents.  The scratch memory then
\* holds what the first decode left instead of what it held before gif_init.
C21_Determinism ==
  ( /\ input.kind = "rt"
    /\ obs.nrewinds = 1 /\ obs.rewound_at = 1 /\ obs.fresh
    /\ Len(hist) >= 2 )
  => /\ hist[2].ret = hist[1].ret
     /\ hist[2].delay = hist[1].delay
     /\ hist[2].canvas = hist[1].canvas

\* C22: a gif_next_frame call during which GIF_ERROR_EARLY_EOF or
\* GIF_ERROR_BAD_FILE was reported returns -1.
C22_ErrorsSurfaced ==
  ( /\ JustReturned
    /\ (GIF_ERROR_EARLY_EOF \in ctx.errs \/ GIF_ERROR_BAD_FILE \in ctx.errs) )
  => ret = -1

\* C30: no byte is read from the input at an index >= gif_size, also not by
\* the 16-bit reads of the delay, the loop count and the four fields of the
\* image descriptor when the input ends inside them.
C30_InputReadsInBounds ==
  Started => ~ctx.oob_in

(***************************************************************************)
(* A third set of inputs: application extensions, LZW streams with codes   *)
(* equal to nextcode, with a CLEAR in the middle, without END, with        *)
(* min-code-size 12, and a frame one pixel wider than GIF_MAX_WIDTH.       *)
(***************************************************************************)
\* "NETSCAPE2.0", "ANIMEXTS1.0", "FOOBAR  1.0"
NetscapeId == <<78, 69, 84, 83, 67, 65, 80, 69, 50, 46, 48>>
AnimextsId == <<65, 78, 73, 77, 69, 88, 84, 83, 49, 46, 48>>
FoobarId == <<70, 79, 79, 66, 65, 82, 32, 32, 49, 46, 48>>

\* an application extension with the 11-byte identifier id and one data
\* sub-block: sub-block ID subid and the 16-bit value k
AppBytes(id, subid, k) == <<33, 255, 11>> \o id \o <<3, subid>> \o U16(k) \o <<0>>

\* a plain-text extension: its 12-byte header block and one block of text
PlainTextBytes ==
  <<33, 1, 12, 0, 0, 0, 0, 2, 0, 1, 0, 1, 1, 1, 0, 2, 104, 105, 0>>

\* extensions that carry a loop count of 5, and extensions that carry none
LoopExts == { AppBytes(NetscapeId, 1, 5), AppBytes(AnimextsId, 1, 5) }
NonLoopExts ==
  { AppBytes(FoobarId, 1, 5), AppBytes(NetscapeId, 2, 5), CommentBytes,
    PlainTextBytes }

\* a one-frame file without NETSCAPE block of the writer, with one of these
\* extensions in front of the frame
AppInputs ==
  { [GifOf("app", 2, 1, -1, <<FrameA(<<>>)>>, "T") EXCEPT !.ext = e] :
      e \in LoopExts \cup NonLoopExts }

\* streams of a conforming encoder in which a code equals nextcode
KwkwkInputs ==
  { GifOf("kwkwk", Len(px), 1, 0, <<Encoded(<<>>, Len(px), 1, px)>>, "T") :
      px \in { <<1, 1, 1>>, <<0, 0, 0, 0>>, <<1, 0, 1, 0, 1>> } }

\* one literal code per pixel, on frames of width 1 and 2
SpanInputs ==
  { GifOf("span", wh[1], wh[2], 0,
          <<Frame(<<>>, 0, 0, wh[1], wh[2], 0,
                  <<4>> \o wh[3] \o <<5>>, wh[3])>>, "T") :
      wh \in { <<1, 2, <<0, 1>>>>, <<1, 3, <<1, 0, 1>>>>, <<2, 2, <<0, 1, 1, 0>>>> } }

\* a 2x2 frame whose stream has a CLEAR between its two lines
ClearInputs ==
  { GifOf("clear", 2, 2, 0,
          <<Frame(<<>>, 0, 0, 2, 2, 0, <<4, 0, 1, 4, 1, 0, 5>>, <<0, 1, 1, 0>>)>>,
          "T") }

\* a 2x1 frame whose data end with the zero-length block but without END
NoEndInputs ==
  { GifOf("noend", 2, 1, 0,
          <<Frame(<<>>, 0, 0, 2, 1, 0, <<4, 1, 0>>, <<1, 0>>)>>, "T") }

\* a 2x1 frame with the min-code-size byte 12: CLEAR is 4096, END is 4097
MinCodeInputs ==
  { GifOf("mcs", 2, 1, 0,
          <<[Frame(<<>>, 0, 0, 2, 1, 0, <<4096, 1, 0, 4097>>, <<1, 0>>)
               EXCEPT !.mcs = 12]>>, "T") }

\* the codes CLEAR, 0, 0, 6, 7, .., 47, END: each code from 6 on is the entry
\* made one step before, so the strings grow and 506 pixels come out
GrowingCodes == <<4, 0, 0>> \o [i \in 1..42 |-> 5 + i] \o <<5>>

\* a frame and canvas of width GIF_MAX_WIDTH + 1
WideInputs ==
  { GifOf("wide", GIF_MAX_WIDTH + 1, 1, 0,
          <<Frame(<<>>, 0, 0, GIF_MAX_WIDTH + 1, 1, 0, GrowingCodes, <<>>)>>,
          "T") }

StreamInputs ==
  AppInputs \cup KwkwkInputs \cup SpanInputs \cup ClearInputs \cup NoEndInputs
    \cup MinCodeInputs \cup WideInputs

InitStream == InitFrom(StreamInputs)

SpecStream == InitStream /\ [][NextExtra]_vars

\* C23: only an application extension NETSCAPE2.0 or ANIMEXTS1.0 with
\* sub-block ID 1 changes the loop counter; another identifier, another
\* sub-block ID, a comment or a plain-text extension leaves it as gif_init
\* set it.
C23_LoopCountSource ==
  (input.kind = "app" /\ Started /\ ~obs.closed) =>
    /\ input.ext \in NonLoopExts => ctx.loop_count = -1
    /\ (input.ext \in LoopExts /\ JustProduced(1) /\ Len(hist) = 1)
         => ctx.loop_count = 5

\* the string the dictionary of the decoder holds for a code before the step
StringOf(code) == ChainWalk(scratch, code, GIF_MAX_WIDTH, <<>>)

\* this step of the decoder has pulled the code that equals nextcode and has
\* expanded it
PulledNextCode ==
  /\ pc = "lzw" /\ pc' = "lzw"
  /\ lz.nextcode < GIF_LZW_TABLE_ENTRIES
  /\ lz'.code = lz.nextcode
  /\ lz'.nextcode = lz.nextcode + 1

\* the bytes of the line buffer after the step, from index at on, are s
EmittedAt(at, s) ==
  \A i \in 1..Len(s) : Rd(scratch'.line_buffer, at + i - 1, scratch_fill) = s[i]

\* C24: when the pulled code equals nextcode, the string of the previous
\* code followed by its first byte is emitted, that string is the entry made
\* at nextcode, and the code becomes the previous code.
C24_KwKwK ==
  [][ PulledNextCode =>
        /\ EmittedAt(lz.current_pixel_idx,
                     StringOf(lz.oldcode) \o <<StringOf(lz.oldcode)[1]>>)
        /\ ChainWalk(scratch', lz.nextcode, GIF_MAX_WIDTH, <<>>)
             = StringOf(lz.oldcode) \o <<StringOf(lz.oldcode)[1]>>
        /\ lz'.oldcode = lz.nextcode ]_vars

\* C25: every pixel an expansion emits is composited once, also when the
\* first code of the stream fills a line: on a frame of w x h pixels whose
\* stream has one literal code per pixel, the call writes every pixel of the
\* frame and leaves the colors of the stream on the canvas.
C25_NoPixelDropped ==
  (input.kind = "span" /\ JustReturned /\ Len(hist) = 1) =>
    /\ ret = 1
    /\ obs.written = (0..(input.cw - 1)) \X (0..(input.ch - 1))
    /\ canvas = ColorsFrom(input.frames[1].px, GlobalTable)

\* C26: the bit position of the code reader only moves forward, also over a
\* CLEAR in the middle of the stream: on a frame whose whole stream lies in
\* the first four bytes of the buffer (no refill), every pass of the decoder
\* loop leaves bitnum greater than it was.
C26_BitPositionAdvances ==
  [][ (input.kind = "clear" /\ pc = "lzw" /\ pc' = "lzw")
        => lz'.bitnum > lz.bitnum ]_vars

\* C27: every bit of a code the reader has extracted lies in a byte the
\* sub-block assembler has filled: the bit position behind the last code is
\* at most 8 * lzw_data_size, and lzw_read_offset <= lzw_data_size <= 6 * 255.
C27_RefillGuarantee ==
  (input.kind = "noend" /\ pc = "lzw") =>
    /\ 8 * ctx.lzw_read_offset + lz.bitnum <= 8 * ctx.lzw_data_size
    /\ ctx.lzw_read_offset <= ctx.lzw_data_size
    /\ ctx.lzw_data_size <= GIF_LZW_BASE_BUF_SIZE

\* C28: while a frame is decoded the code width is between min_code_size + 1
\* and 12, nextlim = 2^codesize, sMask = nextlim - 1, nextcode <= nextlim and
\* nextcode <= 4096, whatever the min-code-size byte.
C28_CodeWidthInvariant ==
  pc = "lzw" =>
    /\ lz.codesize >= ctx.lzw_code_start_size + 1
    /\ lz.codesize <= GIF_MAX_CODE_SIZE
    /\ lz.nextlim = 2 ^ lz.codesize
    /\ lz.sMask = lz.nextlim - 1
    /\ lz.nextcode <= lz.nextlim
    /\ lz.nextcode <= GIF_LZW_TABLE_ENTRIES

\* C29: the fill of the line buffer is at most GIF_MAX_WIDTH and no byte is
\* stored in it at an index >= GIF_MAX_WIDTH; a frame wider than
\* GIF_MAX_WIDTH is not decoded.
C29_LineBufferBound ==
  pc = "lzw" =>
    /\ lz.current_pixel_idx <= GIF_MAX_WIDTH
    /\ \A i \in DOMAIN scratch.line_buffer : i < GIF_MAX_WIDTH

(***************************************************************************)
(* Termination of gif_next_frame.                                          *)
(***************************************************************************)
\* files whose animation section holds no image: a comment and the trailer.
\* loop -1: no NETSCAPE block, the loop counter keeps the -1 of gif_init
NoFrameInputs ==
  { GifOf("noframe", 2, 1, loop, <<>>, "CT") : loop \in {-1, 0, 2} }

\* the files without image, and the one-frame animations that end in a trailer
LiveInputs ==
  NoFrameInputs \cup { in \in AnimInputs : in.tail = "T" /\ NumFrames(in) = 1 }

InitLive == InitFrom(LiveInputs)

\* the separator loop stands in front of a trailer (line 917)
NextIsTrailer ==
  /\ pc = "sep"
  /\ ctx.current_pos < ctx.gif_size
  /\ gif_data[ctx.current_pos + 1] = 59

\* the pass of the separator loop that reads a trailer, and its other passes
TrailerPass == NextIsTrailer /\ SeparatorStep
OtherPass == ~NextIsTrailer /\ SeparatorStep

\* the separator loop has a pass to take that does not read a trailer
OtherPassDue == pc = "sep" /\ ~NextIsTrailer

\* the main loop of gif_decode_lzw has a pass to take
LzwRuns == pc = "lzw" /\ lz.current_line_idx < MaxLines

\* A call that has started runs on: the loops of gif_next_frame and of
\* gif_decode_lzw take their next pass as long as their tests allow one. This
\* is weak fairness of each pass; for the passes that read extensions or run
\* the decoder, the condition under which the pass can be taken is written
\* out as a state predicate.
SpecLive ==
  /\ InitLive /\ [][NextExtra]_vars
  /\ WF_vars(TrailerPass)
  /\ ([]<>~OtherPassDue \/ []<><<OtherPass>>_vars)
  /\ ([]<>~LzwRuns \/ []<><<LzwStep>>_vars)

\* gif_next_frame is inside its separator loop or inside gif_decode_lzw
InsideNextFrame == pc \in {"sep", "lzw"}

\* C31: every gif_next_frame call returns: a call that is inside the
\* separator loop or inside the LZW decode is outside them later on, also on
\* a file whose animation section has a trailer but no image descriptor.
C31_Termination == InsideNextFrame ~> ~InsideNextFrame

====
